---- MODULE Spec2Model ----
(***************************************************************************)
(* The tagged-action interpreter of Tasks/Day1/3.1-execute.ts: class Exec   *)
(* walks a list of actions (read / match / log / noop) against one context  *)
(* holding at most one current user, calling the reader and the logger.     *)
(*                                                                          *)
(* One step of the model is one call of a handler of Exec.  executeMatch    *)
(* calls executeAction on the selected nested action as its last statement, *)
(* so the pending nested action is the whole call stack: `cur' holds the    *)
(* action executeAction is about to dispatch and `at' its place in the      *)
(* tree of the top-level action actions[idx].                               *)
(***************************************************************************)
EXTENDS Integers, Sequences, FiniteSets, TLC

VARIABLES
  actions,     \* the list passed to run (<<>> between runs)
  idx,         \* position of the for..of loop of executeActions (1-based)
  pc,          \* "idle" | "loop" | "exec" | "done" | "error"
  cur,         \* <<>> or <<a>>: the action executeAction is called with
  at,          \* path of cur below actions[idx]: sequence of "onSuccess"/"onFail"
  env,         \* context.env: the empty record, or [user |-> u]
  error,       \* the error run throws: "" | "missingUser" | "unknownType" | "reader" | "logger"
  calls,       \* history: the reader and logger invocations of this run, in order
  executed,    \* history: the nodes executeAction was called with in this run, in order
  readBefore,  \* history: an earlier run on this Exec instance executed a read
  \* the step-chain Exec of 3-execute.ts
  steps,       \* <<>> or <<s>>: the head step passed to run
  step,        \* <<>> or <<s>>: the step whose execute is running
  via,         \* how step was reached: "run" | "next" | "success" | "fail"
  ctx,         \* context.env of the step-chain run
  stepPc,      \* "idle" | "exec" | "done" | "error"
  stepError,   \* the error the run throws: "" | "missingUser" | "reader" | "logger"
  stepCalls,   \* history: the reader and logger invocations of this run, in order
  stepTrace,   \* history: the steps executed in this run, in order
  \* the SupportHandler chain of part_000
  nextHandler, \* handler -> <<>> (null) or <<h>>: the field nextHandler
  supPc,       \* "idle" | "handle" | "done" | "overflow"
  supHead,     \* <<>> or <<h>>: the handler handle was called on from outside
  request,     \* <<>> or <<r>>: the request being handled
  handler,     \* <<>> or <<h>>: the handler whose handle is running
  supDepth,    \* nested handle calls on the stack
  supResult,   \* <<>> or <<s>>: what handle returned
  consulted,   \* history: the handlers whose canHandle was called, in order
  processed,   \* history: the handlers whose processRequest was called, in order
  \* the Logger chain of part_000
  loggerLevel, \* logger -> <<>> (not constructed) or <<level>>: the field level
  nextLogger,  \* logger -> <<>> (null) or <<l>>: the field nextLogger
  logPc,       \* "idle" | "log" | "done" | "overflow"
  logHead,     \* <<>> or <<l>>: the logger log was called on from outside
  logArgs,     \* <<>> or <<[level, message]>>: the arguments of log
  logger,      \* <<>> or <<l>>: the logger whose log is running
  logDepth,    \* nested log calls on the stack
  passed,      \* history: the loggers whose log was called, in order
  written,     \* history: the write calls, in order
  \* an Either carried through a pipeline of map and chain (6-either.ts)
  either,      \* <<>> or <<e>>: the Either the next method is called on
  pipeline,    \* the map / chain calls still to be made, in order
  eitherPc,    \* "idle" | "pipe"
  trail,       \* history: the Either at the start and after every call
  fnCalls,     \* history: the functions map and chain invoked, with their arguments
  folded,      \* <<>> or <<x>>: what fold returned
  gotten,      \* <<>> or <<x>>: what getOrElse returned
  \* a Future built with map and chain, then forked (5-future.js)
  future,      \* <<>> or <<f>>: the Future built so far
  futPc,       \* "idle" | "built" | "run" | "settled" | "threw"
  stageAt,     \* while forked: 0 for the first computation, else the stage to run
  futValue,    \* <<>> or <<v>>: the value the stage before resolved with
  invoked,     \* history: the computations and functions run, in order
  settled      \* history: the calls of onError / onSuccess, in order

execVars == <<actions, idx, pc, cur, at, env, error, calls, executed, readBefore>>
chainVars == <<steps, step, via, ctx, stepPc, stepError, stepCalls, stepTrace>>

supportVars == <<nextHandler, supPc, supHead, request, handler, supDepth, supResult,
                 consulted, processed>>
loggerVars == <<loggerLevel, nextLogger, logPc, logHead, logArgs, logger, logDepth,
                passed, written>>

eitherVars == <<either, pipeline, eitherPc, trail, fnCalls, folded, gotten>>
futureVars == <<future, futPc, stageAt, futValue, invoked, settled>>

vars == <<execVars, chainVars, supportVars, loggerVars, eitherVars, futureVars>>

\* what the steps of one program leave alone
notExec == <<chainVars, supportVars, loggerVars, eitherVars, futureVars>>
notChain == <<execVars, supportVars, loggerVars, eitherVars, futureVars>>
notSupport == <<execVars, chainVars, loggerVars, eitherVars, futureVars>>
notLogger == <<execVars, chainVars, supportVars, eitherVars, futureVars>>
notEither == <<execVars, chainVars, supportVars, loggerVars, futureVars>>
notFuture == <<execVars, chainVars, supportVars, loggerVars, eitherVars>>

-----------------------------------------------------------------------------
(* Bounds *)

\* longest action list passed to run
MaxLen == 3

\* nested calls the engine's stack holds; one more is a RangeError
MaxStack == 5

\* most map / chain calls made one after the other on an Either
MaxPipe == 3

\* most map / chain calls made one after the other on a Future
MaxStages == 3

-----------------------------------------------------------------------------
(* JavaScript values: a type tag and a spelling, so that === is equality *)

JsNumber(n) == [type |-> "number", v |-> n]
JsString(s) == [type |-> "string", v |-> s]
JsUndefined == [type |-> "undefined", v |-> ""]
JsFunction(f) == [type |-> "function", v |-> f]

\* interface User: id, name, age
MkUser(id, name, age) == [id |-> JsNumber(id), name |-> JsString(name), age |-> JsNumber(age)]

\* what a user object inherits: the reader builds users as object literals
ObjectPrototype == [constructor |-> JsFunction("Object"), toString |-> JsFunction("toString")]

\* user[key]: own field, else inherited property, else undefined
GetProp(user, key) ==
  IF key \in DOMAIN user THEN user[key]
  ELSE IF key \in DOMAIN ObjectPrototype THEN ObjectPrototype[key]
  ELSE JsUndefined

\* key in user
HasProperty(user, key) == key \in DOMAIN user \/ key \in DOMAIN ObjectPrototype

-----------------------------------------------------------------------------
(* Actions: one record shape for the four variants (and a foreign tag) *)

\* onSuccess / onFail are <<>> (absent) or <<a>>; criteria is the list of
\* <<key, value>> entries of args in Object.keys order
MkAction(type, id, key, criteria, hasCallback, onSuccess, onFail) ==
  [type |-> type, id |-> id, key |-> key, criteria |-> criteria,
   hasCallback |-> hasCallback, onSuccess |-> onSuccess, onFail |-> onFail]

ReadAction(id) == MkAction("read", id, "", <<>>, FALSE, <<>>, <<>>)
LogAction(key) == MkAction("log", "", key, <<>>, FALSE, <<>>, <<>>)
NoopAction == MkAction("noop", "", "", <<>>, FALSE, <<>>, <<>>)
\* a tag outside ActionType, reaching the default case of the switch
JumpAction == MkAction("jump", "", "", <<>>, FALSE, <<>>, <<>>)
MatchAction(criteria, onSuccess, onFail) ==
  MkAction("match", "", "", criteria, TRUE, onSuccess, onFail)
\* a match without the callback object
MatchNoCallback(criteria) == MkAction("match", "", "", criteria, FALSE, <<>>, <<>>)

\* type ActionType
ActionType == {"read", "match", "log", "noop"}

-----------------------------------------------------------------------------
(* The inputs the model draws from *)

\* ids passed to read; 15 is the id of the example list
Ids == {"15", "16"}

\* what reader may return for an id: the example reader's user, or another one
UsersFor(id) == {MkUser(id, "marcus", "42"), MkUser(id, "bob", "30")}

NameIs(n) == << <<"name", JsString(n)>> >>

\* the match of the example list
ExampleMatch == MatchAction(NameIs("marcus"), <<LogAction("age")>>, <<NoopAction>>)

Leaves ==
  { ReadAction("15"), ReadAction("16"),
    LogAction("age"), LogAction("unknownField"), LogAction("constructor"),
    NoopAction, JumpAction }

Matches ==
  { ExampleMatch,
    MatchAction(<<>>, <<NoopAction>>, <<>>),
    MatchNoCallback(NameIs("marcus")),
    MatchAction(NameIs("marcus"), <<>>, <<ReadAction("16")>>),
    MatchAction(<< <<"city", JsUndefined>>, <<"id", JsNumber("15")>> >>,
                <<ExampleMatch>>, <<JumpAction>>) }

ActionUniverse == Leaves \cup Matches

\* the lists run may be called with
ActionLists == UNION { [1..n -> ActionUniverse] : n \in 0..MaxLen }

-----------------------------------------------------------------------------
(* The handlers' decisions *)

\* env: {} of a fresh context
EmptyEnv == <<>>

\* !context.env.user
UserMissing(e) == "user" \notin DOMAIN e

\* some in the place of every
RECURSIVE AnyKey(_, _)
AnyKey(user, criteria) ==
  IF criteria = <<>> THEN FALSE
  ELSE IF GetProp(user, Head(criteria)[1]) = Head(criteria)[2] THEN TRUE
  ELSE AnyKey(user, Tail(criteria))

\* Object.keys(criteria).every(key => user[key] === criteria[key]), left to
\* right, stopping at the first key that differs
RECURSIVE Every(_, _)
Every(user, criteria) ==
  IF criteria = <<>> THEN TRUE
  ELSE IF GetProp(user, Head(criteria)[1]) # Head(criteria)[2] THEN FALSE
  ELSE Every(user, Tail(criteria))

\* the two slots taken for one another
NextActionSwapped(action, matches) ==
  IF ~action.hasCallback THEN <<>>
  ELSE IF matches THEN action.onFail ELSE action.onSuccess

\* const nextAction = matches ? callback.onSuccess : callback.onFail, under
\* if (action.callback); <<>> when there is nothing to execute
NextAction(action, matches) ==
  IF ~action.hasCallback THEN <<>>
  ELSE IF matches THEN action.onSuccess ELSE action.onFail

\* the slot NextAction reads
Slot(matches) == IF matches THEN "onSuccess" ELSE "onFail"

\* the key logged whatever the user holds
LogValueKeyOnly(user, key) == JsString(key)

\* what executeLog passes to the logger
LogValue(user, key) ==
  IF HasProperty(user, key) THEN GetProp(user, key) ELSE JsString(key)

-----------------------------------------------------------------------------
(* History records *)

ReaderCall(id, threw, ret) ==
  [fn |-> "reader", arg |-> JsNumber(id), top |-> idx, at |-> at, threw |-> threw, ret |-> ret]
LoggerCall(value, threw) ==
  [fn |-> "logger", arg |-> value, top |-> idx, at |-> at, threw |-> threw, ret |-> <<>>]

\* result is "true" / "false" for a match that evaluated its criteria, else "-"
Node(action, result) == [top |-> idx, at |-> at, type |-> action.type, result |-> result]

-----------------------------------------------------------------------------
(* The state machine *)

\* no step-chain run under way
ChainIdle ==
  /\ steps = <<>>
  /\ step = <<>>
  /\ via = ""
  /\ ctx = EmptyEnv
  /\ stepPc = "idle"
  /\ stepError = ""
  /\ stepCalls = <<>>
  /\ stepTrace = <<>>

\* the handlers of the support chain
Handlers == {"junior", "senior", "techLead", "manager"}

\* the four handlers constructed, none linked, no request in hand
SupportIdle ==
  /\ nextHandler = [h \in Handlers |-> <<>>]
  /\ supPc = "idle"
  /\ supHead = <<>>
  /\ request = <<>>
  /\ handler = <<>>
  /\ supDepth = 0
  /\ supResult = <<>>
  /\ consulted = <<>>
  /\ processed = <<>>

\* the loggers of the logging chain
Loggers == {"console", "file", "error"}

\* no logger constructed yet
LoggerIdle ==
  /\ loggerLevel = [l \in Loggers |-> <<>>]
  /\ nextLogger = [l \in Loggers |-> <<>>]
  /\ logPc = "idle"
  /\ logHead = <<>>
  /\ logArgs = <<>>
  /\ logger = <<>>
  /\ logDepth = 0
  /\ passed = <<>>
  /\ written = <<>>

\* no Either in hand
EitherIdle ==
  /\ either = <<>>
  /\ pipeline = <<>>
  /\ eitherPc = "idle"
  /\ trail = <<>>
  /\ fnCalls = <<>>
  /\ folded = <<>>
  /\ gotten = <<>>

\* no Future built
FutureIdle ==
  /\ future = <<>>
  /\ futPc = "idle"
  /\ stageAt = 0
  /\ futValue = <<>>
  /\ invoked = <<>>
  /\ settled = <<>>

Init ==
  /\ actions = <<>>
  /\ idx = 0
  /\ pc = "idle"
  /\ cur = <<>>
  /\ at = <<>>
  /\ env = EmptyEnv
  /\ error = ""
  /\ calls = <<>>
  /\ executed = <<>>
  /\ readBefore = FALSE
  /\ ChainIdle
  /\ SupportIdle
  /\ LoggerIdle
  /\ EitherIdle
  /\ FutureIdle

\* the context of the run before, kept on the instance
StaleEnv == env

\* the context run starts with
FreshEnv == EmptyEnv

\* run(actions): a fresh context, then executeActions
Run ==
  /\ pc = "idle"
  /\ \E list \in ActionLists : actions' = list
  /\ env' = FreshEnv
  /\ idx' = 1
  /\ pc' = "loop"
  /\ UNCHANGED <<cur, at, error, calls, executed, readBefore>>
  /\ UNCHANGED notExec

\* the list walked from its end
LoopIndexReversed == Len(actions) + 1 - idx

\* the position the loop fetches from
LoopIndex == idx

\* a context made anew for every action of the list
ExecuteActionsFreshContext ==
  /\ pc = "loop"
  /\ IF idx <= Len(actions)
       THEN /\ cur' = << actions[LoopIndex] >>
            /\ pc' = "exec"
       ELSE /\ cur' = <<>>
            /\ pc' = "done"
  /\ at' = <<>>
  /\ env' = EmptyEnv
  /\ UNCHANGED <<actions, idx, error, calls, executed, readBefore>>
  /\ UNCHANGED notExec

\* executeActions: for (const action of actions) executeAction(action, context)
ExecuteActions ==
  /\ pc = "loop"
  /\ IF idx <= Len(actions)
       THEN /\ cur' = << actions[LoopIndex] >>
            /\ pc' = "exec"
       ELSE /\ cur' = <<>>
            /\ pc' = "done"
  /\ at' = <<>>
  /\ UNCHANGED <<actions, idx, env, error, calls, executed, readBefore>>
  /\ UNCHANGED notExec

\* the loop left on the action it has just executed
ReturnSameIndex(result) ==
  /\ pc' = "loop"
  /\ idx' = idx
  /\ cur' = <<>>
  /\ at' = <<>>
  /\ error' = ""
  /\ executed' = Append(executed, Node(cur[1], result))

\* executeAction (and with it the handler) returns to the loop
Return(result) ==
  /\ pc' = "loop"
  /\ idx' = idx + 1
  /\ cur' = <<>>
  /\ at' = <<>>
  /\ error' = ""
  /\ executed' = Append(executed, Node(cur[1], result))

\* the error caught in the loop, which goes on with the next action
ThrowSwallowed(kind, result) == Return(result)

\* an error leaves run: nothing of the list runs after it
Throw(kind, result) ==
  /\ pc' = "error"
  /\ error' = kind
  /\ UNCHANGED <<idx, cur, at>>
  /\ executed' = Append(executed, Node(cur[1], result))

\* the guard reports the missing user and lets the handler return
WarnMissingUser == Return("-")

\* throw new Error('User not found in context')
ThrowMissingUser == Throw("missingUser", "-")

\* the user stored only while the context holds none
StoreUserIfEmpty(e, user) == IF "user" \in DOMAIN e THEN e ELSE [user |-> user]

\* context.env.user = user
StoreUser(e, user) == [user |-> user]

\* the user dropped before the reader is called
ExecuteReadClearsFirst ==
  /\ pc = "exec"
  /\ cur[1].type = "read"
  /\ \/ \E user \in UsersFor(cur[1].id) :
          /\ calls' = Append(calls, ReaderCall(cur[1].id, FALSE, <<user>>))
          /\ env' = StoreUser(env, user)
          /\ Return("-")
     \/ /\ calls' = Append(calls, ReaderCall(cur[1].id, TRUE, <<>>))
        /\ env' = EmptyEnv
        /\ Throw("reader", "-")
  /\ UNCHANGED <<actions, readBefore>>
  /\ UNCHANGED notExec

\* case 'read': const user = context.reader(action.args); context.env.user = user
ExecuteRead ==
  /\ pc = "exec"
  /\ cur[1].type = "read"
  /\ \/ \E user \in UsersFor(cur[1].id) :
          /\ calls' = Append(calls, ReaderCall(cur[1].id, FALSE, <<user>>))
          /\ env' = StoreUser(env, user)
          /\ Return("-")
     \/ /\ calls' = Append(calls, ReaderCall(cur[1].id, TRUE, <<>>))
        /\ env' = env
        /\ Throw("reader", "-")
  /\ UNCHANGED <<actions, readBefore>>
  /\ UNCHANGED notExec

\* case 'match'
ExecuteMatch ==
  /\ pc = "exec"
  /\ cur[1].type = "match"
  /\ IF UserMissing(env)
       THEN ThrowMissingUser
       ELSE LET matches == Every(env.user, cur[1].criteria)
                next == NextAction(cur[1], matches)
                result == IF matches THEN "true" ELSE "false"
            IN IF next = <<>>
                 THEN Return(result)
                 ELSE /\ cur' = next
                      /\ at' = Append(at, Slot(matches))
                      /\ executed' = Append(executed, Node(cur[1], result))
                      /\ UNCHANGED <<pc, idx, error>>
  /\ UNCHANGED <<actions, env, calls, readBefore>>
  /\ UNCHANGED notExec

\* case 'log'
ExecuteLog ==
  /\ pc = "exec"
  /\ cur[1].type = "log"
  /\ IF UserMissing(env)
       THEN /\ ThrowMissingUser
            /\ calls' = calls
       ELSE \E threw \in BOOLEAN :
              /\ calls' = Append(calls, LoggerCall(LogValue(env.user, cur[1].key), threw))
              /\ IF threw THEN Throw("logger", "-") ELSE Return("-")
  /\ UNCHANGED <<actions, env, readBefore>>
  /\ UNCHANGED notExec

\* case 'noop'
ExecuteNoop ==
  /\ pc = "exec"
  /\ cur[1].type = "noop"
  /\ Return("-")
  /\ UNCHANGED <<actions, env, calls, readBefore>>
  /\ UNCHANGED notExec

\* default: break
ExecuteUnknownSkipped ==
  /\ pc = "exec"
  /\ cur[1].type \notin ActionType
  /\ Return("-")
  /\ UNCHANGED <<actions, env, calls, readBefore>>
  /\ UNCHANGED notExec

\* default: throw new Error(`Unknown action type: ...`)
ExecuteUnknown ==
  /\ pc = "exec"
  /\ cur[1].type \notin ActionType
  /\ Throw("unknownType", "-")
  /\ UNCHANGED <<actions, env, calls, readBefore>>
  /\ UNCHANGED notExec

\* run returns (or its error reaches the caller); the Exec instance is idle again
Finish ==
  /\ pc \in {"done", "error"}
  /\ pc' = "idle"
  /\ actions' = <<>>
  /\ idx' = 0
  /\ cur' = <<>>
  /\ at' = <<>>
  /\ error' = ""
  /\ calls' = <<>>
  /\ executed' = <<>>
  /\ readBefore' = (readBefore \/ \E i \in 1..Len(executed) : executed[i].type = "read")
  /\ UNCHANGED env
  /\ UNCHANGED notExec

Next ==
  \/ Run
  \/ ExecuteActions
  \/ ExecuteRead
  \/ ExecuteMatch
  \/ ExecuteLog
  \/ ExecuteNoop
  \/ ExecuteUnknown
  \/ Finish

Spec == Init /\ [][Next]_vars

-----------------------------------------------------------------------------
(* executeMatch on a wider range of users and criteria: the run            *)
(* [read, match] taken up where the read has returned and executeAction is *)
(* called with the match                                                   *)

\* the users a reader may have returned
MatchUsers == { MkUser(id, name, age) : id \in Ids, name \in {"marcus", "bob"}, age \in {"42", "30"} }

Entry(key, value) == << <<key, value>> >>

\* criteria over two fields of User, a key no user has and a key every
\* user inherits; "42" is tried as a number and as a string
CriteriaChoices ==
  { c1 \o c2 \o c3 \o c4 :
      c1 \in { <<>>, Entry("name", JsString("marcus")), Entry("name", JsString("bob")) },
      c2 \in { <<>>, Entry("age", JsNumber("42")), Entry("age", JsString("42")) },
      c3 \in { <<>>, Entry("city", JsUndefined), Entry("city", JsString("paris")) },
      c4 \in { <<>>, Entry("constructor", JsUndefined), Entry("constructor", JsFunction("Object")) } }

InitMatch ==
  \E user \in MatchUsers, criteria \in CriteriaChoices :
    /\ actions = << ReadAction(user.id.v),
                    MatchAction(criteria, <<LogAction("age")>>, <<NoopAction>>) >>
    /\ idx = 2
    /\ pc = "exec"
    /\ cur = << actions[2] >>
    /\ at = <<>>
    /\ env = [user |-> user]
    /\ error = ""
    /\ calls = << [fn |-> "reader", arg |-> user.id, top |-> 1, at |-> <<>>,
                   threw |-> FALSE, ret |-> <<user>>] >>
    /\ executed = << [top |-> 1, at |-> <<>>, type |-> "read", result |-> "-"] >>
    /\ readBefore = FALSE
    /\ ChainIdle
    /\ SupportIdle
    /\ LoggerIdle
    /\ EitherIdle
    /\ FutureIdle

SpecMatch == InitMatch /\ [][Next]_vars

-----------------------------------------------------------------------------
(* The step-chain variant (3-execute.ts): every instruction is an object   *)
(* with its own execute, linked to the step after it by setNext            *)

\* most ReadSteps linked one after the other in a program
MaxReads == 2

\* a step: nextStep, successStep and failStep are <<>> or <<s>>; effect is
\* <<>> (noop) or <<key>> (log)
MkStep(kind, id, name, effect, nextStep, successStep, failStep) ==
  [kind |-> kind, id |-> id, name |-> name, effect |-> effect,
   nextStep |-> nextStep, successStep |-> successStep, failStep |-> failStep]

\* new ReadStep({id}), then setNext(nextStep[1]) when nextStep is set
ReadStep(id, nextStep) == MkStep("read", id, "", <<>>, nextStep, <<>>, <<>>)
\* new MatchStep({name}, successStep, failStep), then setNext likewise
MatchStep(name, successStep, failStep, nextStep) ==
  MkStep("match", "", name, <<>>, nextStep, <<successStep>>, <<failStep>>)
\* new EffectStep({log: key}) / new EffectStep({noop: true}), then setNext likewise
EffectStep(effect, nextStep) == MkStep("effect", "", "", effect, nextStep, <<>>, <<>>)

EffectSteps ==
  { EffectStep(<<"age">>, <<>>), EffectStep(<<"name">>, <<>>), EffectStep(<<>>, <<>>) }

\* the steps given to a MatchStep
BranchSteps ==
  EffectSteps \cup
  { ReadStep("16", <<>>),
    MatchStep("bob", EffectStep(<<"name">>, <<>>), EffectStep(<<"age">>, <<>>), <<>>) }

MatchSteps ==
  { MatchStep("marcus", s, f, <<>>) : s, f \in BranchSteps } \cup
  { MatchStep("marcus", EffectStep(<<"age">>, <<>>), EffectStep(<<>>, <<>>),
              << EffectStep(<<"name">>, <<>>) >>) }

RECURSIVE StepChains(_)
\* the programs with at most n ReadSteps in front
StepChains(n) ==
  IF n = 0
    THEN EffectSteps \cup MatchSteps
           \cup { EffectStep(<<"age">>, << EffectStep(<<"name">>, <<>>) >>) }
    ELSE StepChains(n - 1) \cup
           { ReadStep(id, nextStep) :
               id \in Ids, nextStep \in { <<>> } \cup { <<s>> : s \in StepChains(n - 1) } }

StepPrograms == StepChains(MaxReads)

StepCall(fn, arg, threw, ret) == [fn |-> fn, arg |-> arg, threw |-> threw, ret |-> ret]

\* an executed step, and how execute came to be called on it
Visit(s) == [kind |-> s.kind, via |-> via, step |-> s]

\* run(steps): a fresh context, then steps.execute(context)
RunSteps ==
  /\ stepPc = "idle"
  /\ \E s \in StepPrograms :
       /\ steps' = <<s>>
       /\ step' = <<s>>
  /\ via' = "run"
  /\ ctx' = EmptyEnv
  /\ stepPc' = "exec"
  /\ stepError' = ""
  /\ stepCalls' = <<>>
  /\ stepTrace' = <<>>
  /\ UNCHANGED notChain

\* execute returns: with no caller left to go on, so does run
StepReturn ==
  /\ stepPc' = "done"
  /\ step' = <<>>
  /\ via' = ""
  /\ stepError' = ""

\* an error leaves execute and run
StepThrow(kind) ==
  /\ stepPc' = "error"
  /\ stepError' = kind
  /\ step' = <<>>
  /\ via' = ""

\* execute called on another step, the last thing its caller does
StepInto(s, how) ==
  /\ step' = s
  /\ via' = how
  /\ UNCHANGED <<stepPc, stepError>>

\* the step attached with setNext taken for the failStep
MatchNextChained(s, ok) ==
  IF ok THEN s.successStep
  ELSE IF s.nextStep # <<>> THEN s.nextStep ELSE s.failStep

\* const nextStep = ok ? this.successStep : this.failStep
MatchNext(s, ok) == IF ok THEN s.successStep ELSE s.failStep

\* ReadStep.execute
ExecuteReadStep ==
  /\ stepPc = "exec"
  /\ step[1].kind = "read"
  /\ stepTrace' = Append(stepTrace, Visit(step[1]))
  /\ \/ \E user \in UsersFor(step[1].id) :
          /\ stepCalls' = Append(stepCalls,
                                 StepCall("reader", JsNumber(step[1].id), FALSE, <<user>>))
          /\ ctx' = [user |-> user]
          /\ IF step[1].nextStep # <<>>
               THEN StepInto(step[1].nextStep, "next")
               ELSE StepReturn
     \/ /\ stepCalls' = Append(stepCalls,
                               StepCall("reader", JsNumber(step[1].id), TRUE, <<>>))
        /\ ctx' = ctx
        /\ StepThrow("reader")
  /\ UNCHANGED steps
  /\ UNCHANGED notChain

\* MatchStep.execute
ExecuteMatchStep ==
  /\ stepPc = "exec"
  /\ step[1].kind = "match"
  /\ stepTrace' = Append(stepTrace, Visit(step[1]))
  /\ IF UserMissing(ctx)
       THEN StepThrow("missingUser")
       ELSE LET ok == ctx.user.name = JsString(step[1].name)
            IN StepInto(MatchNext(step[1], ok), IF ok THEN "success" ELSE "fail")
  /\ UNCHANGED <<steps, ctx, stepCalls>>
  /\ UNCHANGED notChain

\* EffectStep.execute
ExecuteEffectStep ==
  /\ stepPc = "exec"
  /\ step[1].kind = "effect"
  /\ stepTrace' = Append(stepTrace, Visit(step[1]))
  /\ IF step[1].effect # <<>> /\ ~UserMissing(ctx)
       THEN \E threw \in BOOLEAN :
              /\ stepCalls' = Append(stepCalls,
                                     StepCall("logger", GetProp(ctx.user, step[1].effect[1]),
                                              threw, <<>>))
              /\ IF threw THEN StepThrow("logger") ELSE StepReturn
       ELSE /\ stepCalls' = stepCalls
            /\ StepReturn
  /\ UNCHANGED <<steps, ctx>>
  /\ UNCHANGED notChain

\* run has returned or thrown; the instance is free for the next run
FinishSteps ==
  /\ stepPc \in {"done", "error"}
  /\ steps' = <<>>
  /\ step' = <<>>
  /\ via' = ""
  /\ ctx' = EmptyEnv
  /\ stepPc' = "idle"
  /\ stepError' = ""
  /\ stepCalls' = <<>>
  /\ stepTrace' = <<>>
  /\ UNCHANGED notChain

NextChain ==
  \/ RunSteps
  \/ ExecuteReadStep
  \/ ExecuteMatchStep
  \/ ExecuteEffectStep
  \/ FinishSteps

SpecChain == Init /\ [][NextChain]_vars

-----------------------------------------------------------------------------
(* One program run in both variants: first the step chain, then the action *)
(* list that says the same in the tagged form                              *)

RECURSIVE AsAction(_)
\* a step given to a MatchStep, as the action nested in the MatchAction
AsAction(s) ==
  IF s.kind = "read" THEN ReadAction(s.id)
  ELSE IF s.kind = "effect"
    THEN (IF s.effect = <<>> THEN NoopAction ELSE LogAction(s.effect[1]))
  ELSE MatchAction(NameIs(s.name), << AsAction(s.successStep[1]) >>,
                   << AsAction(s.failStep[1]) >>)

RECURSIVE Nestable(_)
\* the step can be written as one nested action
Nestable(s) ==
  IF s.kind = "read" THEN s.nextStep = <<>>
  ELSE IF s.kind = "effect" THEN TRUE
  ELSE Nestable(s.successStep[1]) /\ Nestable(s.failStep[1])

RECURSIVE Expressible(_)
\* the program can be written as an action list
Expressible(s) ==
  IF s.kind = "read" THEN (s.nextStep = <<>> \/ Expressible(s.nextStep[1]))
  ELSE Nestable(s)

RECURSIVE Translate(_)
\* the action list of a program: the ReadSteps in front one action each,
\* then the step they lead to
Translate(s) ==
  IF s.kind = "read"
    THEN << ReadAction(s.id) >> \o (IF s.nextStep = <<>> THEN <<>> ELSE Translate(s.nextStep[1]))
    ELSE << AsAction(s) >>

\* main.run(steps) on the step-chain Exec, for a program the other form has too
RunBoth ==
  /\ pc = "idle"
  /\ RunSteps
  /\ Expressible(steps'[1])

\* run(actions) on the tagged Exec, with the list of the program the step
\* chain has finished
RunTranslated ==
  /\ pc = "idle"
  /\ stepPc \in {"done", "error"}
  /\ actions' = Translate(steps[1])
  /\ env' = FreshEnv
  /\ idx' = 1
  /\ pc' = "loop"
  /\ UNCHANGED <<cur, at, error, calls, executed, readBefore>>
  /\ UNCHANGED notExec

\* both runs are over
FinishBoth ==
  /\ pc \in {"done", "error"}
  /\ stepPc \in {"done", "error"}
  /\ pc' = "idle"
  /\ actions' = <<>>
  /\ idx' = 0
  /\ cur' = <<>>
  /\ at' = <<>>
  /\ error' = ""
  /\ calls' = <<>>
  /\ executed' = <<>>
  /\ readBefore' = (readBefore \/ \E i \in 1..Len(executed) : executed[i].type = "read")
  /\ UNCHANGED env
  /\ steps' = <<>>
  /\ step' = <<>>
  /\ via' = ""
  /\ ctx' = EmptyEnv
  /\ stepPc' = "idle"
  /\ stepError' = ""
  /\ stepCalls' = <<>>
  /\ stepTrace' = <<>>
  /\ UNCHANGED <<supportVars, loggerVars, eitherVars, futureVars>>

NextBoth ==
  \/ RunBoth
  \/ ExecuteReadStep
  \/ ExecuteMatchStep
  \/ ExecuteEffectStep
  \/ RunTranslated
  \/ ExecuteActions
  \/ ExecuteRead
  \/ ExecuteMatch
  \/ ExecuteLog
  \/ ExecuteNoop
  \/ FinishBoth

SpecBoth == Init /\ [][NextBoth]_vars

-----------------------------------------------------------------------------
(* Chain of responsibility (part_000): the support handlers *)

RequestTypes == {"general", "technical", "billing"}
Priorities == {"low", "medium", "high", "critical"}

\* interface SupportRequest
SupportRequest(type, priority) ==
  [type |-> type, priority |-> priority, description |-> "d", customerId |-> "C001"]

Requests == { SupportRequest(t, p) : t \in RequestTypes, p \in Priorities }

\* canHandle of the handler's class
CanHandle(h, r) ==
  IF h = "junior" THEN r.priority = "low" /\ r.type = "general"
  ELSE IF h = "senior"
    THEN (r.priority = "medium" \/ r.priority = "low")
           /\ (r.type = "technical" \/ r.type = "general")
  ELSE IF h = "techLead" THEN r.priority = "high" /\ r.type = "technical"
  ELSE r.priority = "critical"

\* processRequest of the handler's class: the pieces of the string it builds
ProcessRequest(h, r) ==
  IF h = "junior"
    THEN << "[Junior Support] Handling low priority general request from ",
            r.customerId, r.description >>
  ELSE IF h = "senior"
    THEN << "[Senior Support] Handling ", r.priority, " priority ", r.type,
            " request from ", r.customerId, r.description >>
  ELSE IF h = "techLead"
    THEN << "[Technical Lead] Handling high priority technical request from ",
            r.customerId, r.description >>
  ELSE << "[MANAGER - URGENT] Handling critical ", r.type, " request from ",
          r.customerId, r.description >>

\* `No handler available for ${type} request with priority ${priority}`
NoHandlerAvailable(r) ==
  << "No handler available for ", r.type, " request with priority ", r.priority >>

\* a.setNext(b)
HandlerSetNext ==
  /\ supPc = "idle"
  /\ \E a, b \in Handlers : nextHandler' = [nextHandler EXCEPT ![a] = <<b>>]
  /\ UNCHANGED <<supPc, supHead, request, handler, supDepth, supResult, consulted, processed>>
  /\ UNCHANGED notSupport

\* head.handle(request), called from outside
Handle ==
  /\ supPc = "idle"
  /\ \E h \in Handlers, r \in Requests :
       /\ supHead' = <<h>>
       /\ handler' = <<h>>
       /\ request' = <<r>>
  /\ supPc' = "handle"
  /\ supDepth' = 1
  /\ supResult' = <<>>
  /\ consulted' = <<>>
  /\ processed' = <<>>
  /\ UNCHANGED nextHandler
  /\ UNCHANGED notSupport

\* the handler after the next one
NextHandlerSkipsOne(h) ==
  IF nextHandler[h] # <<>> /\ nextHandler[nextHandler[h][1]] # <<>>
    THEN nextHandler[nextHandler[h][1]]
    ELSE nextHandler[h]

\* this.nextHandler
NextHandler(h) == nextHandler[h]

\* the body of handle, run by the handler the request has reached
HandleStep ==
  /\ supPc = "handle"
  /\ consulted' = Append(consulted, handler[1])
  /\ IF CanHandle(handler[1], request[1])
       THEN /\ processed' = Append(processed, handler[1])
            /\ supResult' = << ProcessRequest(handler[1], request[1]) >>
            /\ supPc' = "done"
            /\ UNCHANGED <<handler, supDepth>>
       ELSE IF NextHandler(handler[1]) # <<>>
         THEN /\ IF supDepth < MaxStack
                   THEN /\ handler' = NextHandler(handler[1])
                        /\ supDepth' = supDepth + 1
                        /\ supPc' = "handle"
                   ELSE /\ supPc' = "overflow"
                        /\ UNCHANGED <<handler, supDepth>>
              /\ UNCHANGED <<processed, supResult>>
         ELSE /\ supResult' = << NoHandlerAvailable(request[1]) >>
              /\ supPc' = "done"
              /\ UNCHANGED <<processed, handler, supDepth>>
  /\ UNCHANGED <<nextHandler, supHead, request>>
  /\ UNCHANGED notSupport

\* handle has returned (or the stack ran out); the chain stays as linked
HandleReturn ==
  /\ supPc \in {"done", "overflow"}
  /\ supPc' = "idle"
  /\ supHead' = <<>>
  /\ request' = <<>>
  /\ handler' = <<>>
  /\ supDepth' = 0
  /\ supResult' = <<>>
  /\ consulted' = <<>>
  /\ processed' = <<>>
  /\ UNCHANGED nextHandler
  /\ UNCHANGED notSupport

NextSupport ==
  \/ HandlerSetNext
  \/ Handle
  \/ HandleStep
  \/ HandleReturn

SpecSupport == Init /\ [][NextSupport]_vars

-----------------------------------------------------------------------------
(* Chain of responsibility (part_000): the loggers *)

\* enum LogLevel
INFO == 1
WARNING == 2
ERROR == 3
LogLevel == {INFO, WARNING, ERROR}

\* new ConsoleLogger(level) / new FileLogger(level) / new ErrorLogger(level)
NewLogger ==
  /\ logPc = "idle"
  /\ \E l \in Loggers, level \in LogLevel :
       /\ loggerLevel[l] = <<>>
       /\ loggerLevel' = [loggerLevel EXCEPT ![l] = <<level>>]
  /\ UNCHANGED <<nextLogger, logPc, logHead, logArgs, logger, logDepth, passed, written>>
  /\ UNCHANGED notLogger

\* a.setNext(b)
LoggerSetNext ==
  /\ logPc = "idle"
  /\ \E a, b \in Loggers :
       /\ loggerLevel[a] # <<>> /\ loggerLevel[b] # <<>>
       /\ nextLogger' = [nextLogger EXCEPT ![a] = <<b>>]
  /\ UNCHANGED <<loggerLevel, logPc, logHead, logArgs, logger, logDepth, passed, written>>
  /\ UNCHANGED notLogger

\* head.log(level, message), called from outside
Log ==
  /\ logPc = "idle"
  /\ \E l \in Loggers, level \in LogLevel :
       /\ loggerLevel[l] # <<>>
       /\ logHead' = <<l>>
       /\ logger' = <<l>>
       /\ logArgs' = << [level |-> level, message |-> "m"] >>
  /\ logPc' = "log"
  /\ logDepth' = 1
  /\ passed' = <<>>
  /\ written' = <<>>
  /\ UNCHANGED <<loggerLevel, nextLogger>>
  /\ UNCHANGED notLogger

\* only what lies above the logger's level is written
WritesAbove(l, level) == level > loggerLevel[l][1]

\* level >= this.level
Writes(l, level) == level >= loggerLevel[l][1]

\* the body of log, run by the logger the message has reached
LogStep ==
  /\ logPc = "log"
  /\ passed' = Append(passed, logger[1])
  /\ written' = IF Writes(logger[1], logArgs[1].level)
                  THEN Append(written, [by |-> logger[1], message |-> logArgs[1].message])
                  ELSE written
  /\ IF nextLogger[logger[1]] # <<>>
       THEN IF logDepth < MaxStack
              THEN /\ logger' = nextLogger[logger[1]]
                   /\ logDepth' = logDepth + 1
                   /\ logPc' = "log"
              ELSE /\ logPc' = "overflow"
                   /\ UNCHANGED <<logger, logDepth>>
       ELSE /\ logPc' = "done"
            /\ UNCHANGED <<logger, logDepth>>
  /\ UNCHANGED <<loggerLevel, nextLogger, logHead, logArgs>>
  /\ UNCHANGED notLogger

\* log has returned (or the stack ran out); the chain stays as linked
LogReturn ==
  /\ logPc \in {"done", "overflow"}
  /\ logPc' = "idle"
  /\ logHead' = <<>>
  /\ logArgs' = <<>>
  /\ logger' = <<>>
  /\ logDepth' = 0
  /\ passed' = <<>>
  /\ written' = <<>>
  /\ UNCHANGED <<loggerLevel, nextLogger>>
  /\ UNCHANGED notLogger

NextLogger ==
  \/ NewLogger
  \/ LoggerSetNext
  \/ Log
  \/ LogStep
  \/ LogReturn

SpecLogger == Init /\ [][NextLogger]_vars

-----------------------------------------------------------------------------
(* Either (6-either.ts): a value carried through map and chain *)

\* numbers and strings as the functions below meet them
Num(n) == [type |-> "number", n |-> n, s |-> ""]
Str(t) == [type |-> "string", n |-> 0, s |-> t]
\* what arithmetic makes of a string that spells no number
NaN == [type |-> "number", n |-> 0, s |-> "NaN"]

\* new Either(value, isRight)
MkEither(value, isRight) == [value |-> value, isRightValue |-> isRight]
\* static right(value)
Right(value) == MkEither(value, TRUE)
\* static left(value)
Left(value) == MkEither(value, FALSE)
\* isRight()
IsRight(e) == e.isRightValue
\* isLeft()
IsLeft(e) == ~e.isRightValue

\* the functions handed to map: x => x * 2 and x => -x
MapFns == {"double", "negate"}
\* the functions handed to chain: validatePositive and divide(0)
ChainFns == {"validatePositive", "divide0"}

\* fn(value) for a function handed to map
ApplyFn(fn, x) ==
  IF x.type # "number" \/ x.s = "NaN" THEN NaN
  ELSE IF fn = "double" THEN Num(x.n * 2)
  ELSE Num(0 - x.n)

\* fn(value) for a function handed to chain
ApplyChainFn(fn, x) ==
  IF fn = "validatePositive"
    THEN (IF x.type = "number" /\ x.s # "NaN" /\ x.n > 0
            THEN Right(x) ELSE Left(Str("Number must be positive")))
    ELSE (IF x = Num(0) THEN Left(Str("Division by zero"))
          ELSE IF x.type = "number" /\ x.s # "NaN" THEN Right(Num(0))
          ELSE Right(NaN))

\* the function applied to what a Left carries
MapOverLeft(e, fn) ==
  IF e.isRightValue THEN Right(ApplyFn(fn, e.value)) ELSE Left(ApplyFn(fn, e.value))

\* map(fn)
Map(e, fn) ==
  IF e.isRightValue THEN Right(ApplyFn(fn, e.value)) ELSE Left(e.value)

\* chain(fn)
Chain(e, fn) ==
  IF e.isRightValue THEN ApplyChainFn(fn, e.value) ELSE Left(e.value)

\* fold(err => `Error: ${err}`, val => `Result: ${val}`)
Fold(e) ==
  IF e.isRightValue THEN [fn |-> "rightFn", arg |-> e.value]
  ELSE [fn |-> "leftFn", arg |-> e.value]

\* getOrElse(defaultValue)
GetOrElse(e, defaultValue) == IF e.isRightValue THEN e.value ELSE defaultValue

\* the Eithers a pipeline starts from
StartEithers ==
  { Right(Num(5)), Right(Num(0 - 5)), Right(Num(0)), Left(Str("Invalid number")) }

PipeCalls ==
  { [op |-> "map", fn |-> f] : f \in MapFns } \cup { [op |-> "chain", fn |-> f] : f \in ChainFns }

Pipelines == UNION { [1..n -> PipeCalls] : n \in 0..MaxPipe }

\* Either.right(v) / Either.left(v), and the calls that are to follow
EitherStart ==
  /\ eitherPc = "idle"
  /\ \E e \in StartEithers, p \in Pipelines :
       /\ either' = <<e>>
       /\ pipeline' = p
       /\ trail' = <<e>>
  /\ eitherPc' = "pipe"
  /\ fnCalls' = <<>>
  /\ folded' = <<>>
  /\ gotten' = <<>>
  /\ UNCHANGED notEither

\* either.map(fn)
EitherMap ==
  /\ eitherPc = "pipe"
  /\ pipeline # <<>>
  /\ Head(pipeline).op = "map"
  /\ LET fn == Head(pipeline).fn
         result == Map(either[1], fn)
     IN /\ either' = <<result>>
        /\ trail' = Append(trail, result)
        /\ fnCalls' = IF either[1].isRightValue
                        THEN Append(fnCalls, [fn |-> fn, arg |-> either[1].value])
                        ELSE fnCalls
  /\ pipeline' = Tail(pipeline)
  /\ UNCHANGED <<eitherPc, folded, gotten>>
  /\ UNCHANGED notEither

\* either.chain(fn)
EitherChain ==
  /\ eitherPc = "pipe"
  /\ pipeline # <<>>
  /\ Head(pipeline).op = "chain"
  /\ LET fn == Head(pipeline).fn
         result == Chain(either[1], fn)
     IN /\ either' = <<result>>
        /\ trail' = Append(trail, result)
        /\ fnCalls' = IF either[1].isRightValue
                        THEN Append(fnCalls, [fn |-> fn, arg |-> either[1].value])
                        ELSE fnCalls
  /\ pipeline' = Tail(pipeline)
  /\ UNCHANGED <<eitherPc, folded, gotten>>
  /\ UNCHANGED notEither

\* either.fold(leftFn, rightFn) on what the pipeline has made
EitherFold ==
  /\ eitherPc = "pipe"
  /\ pipeline = <<>>
  /\ folded = <<>>
  /\ folded' = << Fold(either[1]) >>
  /\ UNCHANGED <<either, pipeline, eitherPc, trail, fnCalls, gotten>>
  /\ UNCHANGED notEither

\* either.getOrElse(0) on what the pipeline has made
EitherGetOrElse ==
  /\ eitherPc = "pipe"
  /\ pipeline = <<>>
  /\ gotten = <<>>
  /\ gotten' = << GetOrElse(either[1], Num(0)) >>
  /\ UNCHANGED <<either, pipeline, eitherPc, trail, fnCalls, folded>>
  /\ UNCHANGED notEither

\* the Either is let go
EitherDrop ==
  /\ eitherPc = "pipe"
  /\ pipeline = <<>>
  /\ either' = <<>>
  /\ eitherPc' = "idle"
  /\ trail' = <<>>
  /\ fnCalls' = <<>>
  /\ folded' = <<>>
  /\ gotten' = <<>>
  /\ UNCHANGED pipeline
  /\ UNCHANGED notEither

NextEither ==
  \/ EitherStart
  \/ EitherMap
  \/ EitherChain
  \/ EitherFold
  \/ EitherGetOrElse
  \/ EitherDrop

SpecEither == Init /\ [][NextEither]_vars

-----------------------------------------------------------------------------
(* Future (5-future.js): a computation wrapped by map and chain, run by    *)
(* fork. map and chain build closures around this.computation; fork calls *)
(* the outermost one, which calls inwards down to the first computation,   *)
(* and the callbacks then run outwards, stage after stage.                 *)

\* a computation made by futurify: it calls back once, with an error or a
\* result, and so rejects or resolves
Computation(name, rejects, with) == [name |-> name, rejects |-> rejects, with |-> with]

\* the computations a Future is constructed with
Computations ==
  { Computation("readOne", FALSE, Num(1)),
    Computation("readTwo", FALSE, Num(2)),
    Computation("readFails", TRUE, Str("ENOENT")) }

\* the functions handed to map; boom throws
FutureMapFns == {"double", "negate", "boom"}
\* the functions handed to chain, each returning a Future
FutureChainFns == {"write", "writeFails", "positive"}

\* the Future fn(value) returns, given by its computation
ChainFuture(fn, x) ==
  IF fn = "write" THEN Computation("write", FALSE, Str("undefined"))
  ELSE IF fn = "writeFails" THEN Computation("writeFails", TRUE, Str("EACCES"))
  ELSE IF x.type = "number" /\ x.s # "NaN" /\ x.n > 0
    THEN Computation("positive", FALSE, x)
    ELSE Computation("positive", TRUE, Str("not positive"))

\* an entry of the history of what ran
Ran(what, name, arg, kind, value) ==
  [what |-> what, name |-> name, arg |-> arg, out |-> [kind |-> kind, value |-> value]]

\* a computation run: what it was called back with
RanComputation(c) ==
  Ran("computation", c.name, Str(""), IF c.rejects THEN "reject" ELSE "resolve", c.with)

\* new Future(computation)
NewFuture ==
  /\ futPc = "idle"
  /\ \E c \in Computations : future' = << [computation |-> c, stages |-> <<>>] >>
  /\ futPc' = "built"
  /\ UNCHANGED <<stageAt, futValue, invoked, settled>>
  /\ UNCHANGED notFuture

\* future.map(fn): a new Future around this one; nothing runs
FutureMap ==
  /\ futPc = "built"
  /\ Len(future[1].stages) < MaxStages
  /\ \E fn \in FutureMapFns :
       future' = << [future[1] EXCEPT !.stages = Append(@, [op |-> "map", fn |-> fn])] >>
  /\ UNCHANGED <<futPc, stageAt, futValue, invoked, settled>>
  /\ UNCHANGED notFuture

\* future.chain(fn): a new Future around this one; nothing runs
FutureChain ==
  /\ futPc = "built"
  /\ Len(future[1].stages) < MaxStages
  /\ \E fn \in FutureChainFns :
       future' = << [future[1] EXCEPT !.stages = Append(@, [op |-> "chain", fn |-> fn])] >>
  /\ UNCHANGED <<futPc, stageAt, futValue, invoked, settled>>
  /\ UNCHANGED notFuture

\* future.fork(onError, onSuccess): the call reaches the first computation
Fork ==
  /\ futPc = "built"
  /\ futPc' = "run"
  /\ stageAt' = 0
  /\ UNCHANGED <<future, futValue, invoked, settled>>
  /\ UNCHANGED notFuture

\* resolve(v) of the stage at hand: the stage attached next takes the value,
\* or onSuccess when there is none
Resolved(v) ==
  IF stageAt = Len(future[1].stages)
    THEN /\ settled' = Append(settled, [cb |-> "onSuccess", arg |-> v])
         /\ futPc' = "settled"
         /\ UNCHANGED <<stageAt, futValue>>
    ELSE /\ stageAt' = stageAt + 1
         /\ futValue' = <<v>>
         /\ UNCHANGED <<futPc, settled>>

\* the error taken for a value by the stage attached next
RejectedGoesOn(e) == Resolved(e)

\* reject(e): every stage passes its own reject inwards unchanged, so this
\* is onError
Rejected(e) ==
  /\ settled' = Append(settled, [cb |-> "onError", arg |-> e])
  /\ futPc' = "settled"
  /\ UNCHANGED <<stageAt, futValue>>

\* the first computation runs and calls back
RunComputation ==
  /\ futPc = "run"
  /\ stageAt = 0
  /\ LET c == future[1].computation
     IN /\ invoked' = Append(invoked, RanComputation(c))
        /\ IF c.rejects THEN Rejected(c.with) ELSE Resolved(c.with)
  /\ UNCHANGED future
  /\ UNCHANGED notFuture

\* (value) => resolve(fn(value)) of a map
RunMapStage ==
  /\ futPc = "run"
  /\ stageAt >= 1
  /\ future[1].stages[stageAt].op = "map"
  /\ LET fn == future[1].stages[stageAt].fn
         v == futValue[1]
     IN IF fn = "boom"
          THEN /\ invoked' = Append(invoked, Ran("fn", fn, v, "throw", Str("boom")))
               /\ futPc' = "threw"
               /\ UNCHANGED <<stageAt, futValue, settled>>
          ELSE /\ invoked' = Append(invoked, Ran("fn", fn, v, "return", ApplyFn(fn, v)))
               /\ Resolved(ApplyFn(fn, v))
  /\ UNCHANGED future
  /\ UNCHANGED notFuture

\* (value) => { fn(value).fork(reject, resolve) } of a chain
RunChainStage ==
  /\ futPc = "run"
  /\ stageAt >= 1
  /\ future[1].stages[stageAt].op = "chain"
  /\ LET fn == future[1].stages[stageAt].fn
         v == futValue[1]
         c == ChainFuture(fn, v)
     IN /\ invoked' = invoked \o << Ran("fn", fn, v, "future", Str(c.name)), RanComputation(c) >>
        /\ IF c.rejects THEN Rejected(c.with) ELSE Resolved(c.with)
  /\ UNCHANGED future
  /\ UNCHANGED notFuture

\* fork has returned, or thrown what a function threw
ForkReturn ==
  /\ futPc \in {"settled", "threw"}
  /\ future' = <<>>
  /\ futPc' = "idle"
  /\ stageAt' = 0
  /\ futValue' = <<>>
  /\ invoked' = <<>>
  /\ settled' = <<>>
  /\ UNCHANGED notFuture

NextFuture ==
  \/ NewFuture
  \/ FutureMap
  \/ FutureChain
  \/ Fork
  \/ RunComputation
  \/ RunMapStage
  \/ RunChainStage
  \/ ForkReturn

SpecFuture == Init /\ [][NextFuture]_vars

-----------------------------------------------------------------------------
(* What the claims speak of *)

\* the last entry of a history
Last(h) == h[Len(h)]

\* executeAction is about to run a handler on an action of the given types
Executing(types) == pc = "exec" /\ cur[1].type \in types

\* the context holds a current user
Populated == "user" \in DOMAIN env

\* every key of the criteria maps to the identical value in the user
CriteriaHold(user, criteria) ==
  \A i \in 1..Len(criteria) : GetProp(user, criteria[i][1]) = criteria[i][2]

\* no invocation is added to the history by the step
NoCall == calls' = calls

\* the step leaves the run with the given error
Raises(kind) == pc' = "error" /\ error' = kind

\* the step makes exactly one invocation, of fn
OneCall(fn) == Len(calls') = Len(calls) + 1 /\ SubSeq(calls', 1, Len(calls)) = calls
               /\ Last(calls').fn = fn

-----------------------------------------------------------------------------
(* C1: a Match or a Log executed while the context holds no current user   *)
(* raises the missing-user error, and the logger is invoked neither by     *)
(* that action nor by anything after it in that run: the step makes no     *)
(* invocation, and the only step after an error is the one that leaves run *)
(* without an invocation.                                                  *)
C1_MissingUserRaises ==
  [][ /\ (Executing({"match", "log"}) /\ ~Populated)
         => (Raises("missingUser") /\ NoCall /\ env' = env)
      /\ (pc = "error" /\ error = "missingUser")
         => (pc' = "idle" /\ calls' = <<>>) ]_vars

\* a run that failed on a top-level match with a log still ahead in its list
C1_Witness ==
  /\ pc = "error" /\ error = "missingUser"
  /\ cur[1].type = "match"
  /\ calls = <<>>
  /\ \E j \in (idx + 1)..Len(actions) : actions[j].type = "log"

-----------------------------------------------------------------------------
(* C2: an executeMatch with a populated context passes at most one of its  *)
(* nested actions to executeAction: onSuccess iff the criteria hold and    *)
(* onSuccess is present, onFail iff they do not hold and onFail is         *)
(* present, and none exactly when the selected slot (or the callback       *)
(* object) is absent; under one top-level action no two nodes of the same  *)
(* depth are ever executed.                                                *)
C2_OneBranch ==
  /\ [][ (Executing({"match"}) /\ Populated) =>
           LET a == cur[1]
               m == CriteriaHold(env.user, a.criteria)
               runsSuccess == pc' = "exec" /\ cur' = a.onSuccess /\ at' = Append(at, "onSuccess")
               runsFail == pc' = "exec" /\ cur' = a.onFail /\ at' = Append(at, "onFail")
           IN /\ runsSuccess <=> (m /\ a.hasCallback /\ a.onSuccess # <<>>)
              /\ runsFail <=> (~m /\ a.hasCallback /\ a.onFail # <<>>)
              /\ ~(runsSuccess /\ runsFail)
              /\ (pc' = "loop" /\ cur' = <<>>) <=> ~(runsSuccess \/ runsFail) ]_vars
  /\ [](\A i, j \in 1..Len(executed) :
          (executed[i].top = executed[j].top /\ Len(executed[i].at) = Len(executed[j].at))
             => i = j)

\* the nested example match chose onFail below a match that chose onSuccess
C2_Witness ==
  /\ pc = "exec"
  /\ at = <<"onSuccess", "onFail">>
  /\ cur[1].type = "noop"

-----------------------------------------------------------------------------
-----------------------------------------------------------------------------
(* C4: a Log executed with a populated context holding U invokes the       *)
(* logger exactly once: with U[key] when key is one of id, name, age, and  *)
(* with the key string itself for every other key; no error is raised      *)
(* (the logger returning normally).                                        *)
C4_LogFieldOrKey ==
  [][ (Executing({"log"}) /\ Populated) =>
        LET k == cur[1].key
            expected == IF k \in {"id", "name", "age"} THEN env.user[k] ELSE JsString(k)
        IN /\ OneCall("logger")
           /\ Last(calls').arg = expected
           /\ (~Last(calls').threw => pc' = "loop") ]_vars

\* the same for the keys that are fields of the user or that no user has
\* or inherits: of the keys the model draws, all but "constructor"
C4_LogFieldOrKeyNotInherited ==
  [][ (Executing({"log"}) /\ Populated /\ cur[1].key \notin {"constructor", "toString"}) =>
        LET k == cur[1].key
            expected == IF k \in {"id", "name", "age"} THEN env.user[k] ELSE JsString(k)
        IN /\ OneCall("logger")
           /\ Last(calls').arg = expected
           /\ (~Last(calls').threw => pc' = "loop") ]_vars

-----------------------------------------------------------------------------
(* C5: a Read, top-level or nested in a Match, calls the reader exactly    *)
(* once with its params and makes no other invocation; when the reader     *)
(* returns, the context's current user is exactly the value returned,      *)
(* whatever the context held before.                                       *)
C5_ReadStoresReaderResult ==
  [][ Executing({"read"}) =>
        /\ OneCall("reader")
        /\ Last(calls').arg = JsNumber(cur[1].id)
        /\ Last(calls').top = idx /\ Last(calls').at = at
        /\ ~Last(calls').threw =>
             (env' = [user |-> Last(calls').ret[1]] /\ pc' = "loop") ]_vars

\* two top-level reads of one run returned different users and the context
\* holds the second
C5_Witness ==
  /\ pc = "loop"
  /\ Len(calls) = 2
  /\ calls[1].fn = "reader" /\ calls[2].fn = "reader"
  /\ calls[1].at = <<>> /\ calls[2].at = <<>>
  /\ ~calls[1].threw /\ ~calls[2].threw
  /\ calls[1].ret # calls[2].ret
  /\ env = [user |-> calls[2].ret[1]]

-----------------------------------------------------------------------------
(* C6, as stated: while a top-level action that is not a Read executes (a  *)
(* Match with any nested actions, a Log, a Noop), the context's current    *)
(* user does not change.                                                   *)
C6_NonReadKeepsContext ==
  [][ (pc = "exec" /\ actions[idx].type # "read") => env' = env ]_vars

(* C6, amended: the context's current user changes only in the execution   *)
(* of a Read, be it a top-level action or the nested action a Match        *)
(* selects (and when run makes its fresh context); a Log, a Noop and the   *)
(* handler of a Match itself leave it as it is.                            *)
C6_OnlyReadChangesContext ==
  [][ /\ env' # env => (Executing({"read"}) \/ pc = "idle")
      /\ Executing({"match", "log", "noop"}) => env' = env ]_vars

\* a Read nested in a top-level Match has replaced the user of an earlier Read
C6_Witness ==
  /\ Len(calls) >= 2
  /\ Last(calls).fn = "reader" /\ ~Last(calls).threw
  /\ Last(calls).at # <<>>
  /\ actions[Last(calls).top].type = "match"
  /\ calls[1].fn = "reader" /\ calls[1].ret # Last(calls).ret
  /\ env = [user |-> Last(calls).ret[1]]

-----------------------------------------------------------------------------
(* C7: an error raised while an action executes (missing user, unknown     *)
(* action type, the reader or the logger throwing) aborts the run: the     *)
(* node that raised is the last one executed, no invocation comes from a   *)
(* later action and nothing follows but run's end; the actions before it   *)
(* were all executed and the context is the one the last returning read    *)
(* left.                                                                   *)

\* the node executed[i] raised an error, told from the history alone
RaisedAt(i) ==
  LET n == executed[i]
      mine == { c \in 1..Len(calls) : calls[c].top = n.top /\ calls[c].at = n.at }
  IN \/ n.type \notin {"read", "match", "log", "noop"}
     \/ n.type = "match" /\ n.result = "-"
     \/ n.type = "log" /\ mine = {}
     \/ \E c \in mine : calls[c].threw

\* the context the returning reads of the history leave
RECURSIVE EnvAfter(_)
EnvAfter(h) ==
  IF h = <<>> THEN <<>>
  ELSE IF Last(h).fn = "reader" /\ ~Last(h).threw THEN [user |-> Last(h).ret[1]]
  ELSE EnvAfter(SubSeq(h, 1, Len(h) - 1))

C7_ErrorAbortsRun ==
  /\ [](\A i \in 1..Len(executed) :
          RaisedAt(i) =>
            /\ pc = "error" /\ error # ""
            /\ i = Len(executed)
            /\ idx = executed[i].top /\ at = executed[i].at
            /\ \A c \in 1..Len(calls) : calls[c].top <= idx
            /\ \A j \in 1..(idx - 1) :
                 \E e \in 1..Len(executed) : executed[e].top = j /\ executed[e].at = <<>>
            /\ env = EnvAfter(calls))
  /\ [][ pc = "error" =>
           /\ pc' = "idle"
           /\ env' = env
           /\ Len(calls') <= Len(calls)
           /\ Len(executed') <= Len(executed) ]_vars

\* the logger threw in the second of three actions, after a read, with a
\* log still ahead
C7_Witness ==
  /\ pc = "error" /\ error = "logger"
  /\ idx = 2 /\ Len(actions) = 3
  /\ actions[3].type = "log"
  /\ Populated
  /\ Len(calls) = 2

-----------------------------------------------------------------------------
(* C8: executeAction called with an action whose tag is none of read,      *)
(* match, log, noop (a top-level action or the branch a Match selected)    *)
(* raises the unknown-action-type error at once: no invocation, the        *)
(* context unchanged, and the rest of the list is not executed.            *)
C8_UnknownTypeRaises ==
  [][ /\ (pc = "exec" /\ cur[1].type \notin {"read", "match", "log", "noop"})
         => (Raises("unknownType") /\ NoCall /\ env' = env /\ idx' = idx)
      /\ (pc = "error" /\ error = "unknownType")
         => (pc' = "idle" /\ Len(executed') <= Len(executed)) ]_vars

\* the error came from the branch a Match selected, with actions left in the list
C8_Witness ==
  /\ pc = "error" /\ error = "unknownType"
  /\ at # <<>>
  /\ idx < Len(actions)

-----------------------------------------------------------------------------
(* C9: run executes the top-level actions strictly in list order, each     *)
(* (with the nested chain its Matches select) to completion before the     *)
(* next starts: the k-th top-level node executed is actions[k], the nodes  *)
(* of one top-level action follow one another down its tree, and the       *)
(* reader and logger invocations are those of the executed read and log    *)
(* nodes, in the order of the list.                                        *)

NoNode == MkAction("none", "", "", <<>>, FALSE, <<>>, <<>>)

\* the node of an action's tree a path leads to
RECURSIVE NodeAt(_, _)
NodeAt(action, path) ==
  IF path = <<>> THEN action
  ELSE IF action[Head(path)] = <<>> THEN NoNode
  ELSE NodeAt(action[Head(path)][1], Tail(path))

C9_ListOrder ==
  pc \in {"loop", "exec", "done", "error"} =>
    /\ \A i \in 1..Len(executed) :
         /\ executed[i].top \in 1..Len(actions)
         /\ executed[i].type = NodeAt(actions[executed[i].top], executed[i].at).type
    /\ executed # <<>> => (executed[1].top = 1 /\ executed[1].at = <<>>)
    /\ \A i \in 1..(Len(executed) - 1) :
         \/ /\ executed[i + 1].top = executed[i].top
            /\ Len(executed[i + 1].at) = Len(executed[i].at) + 1
            /\ SubSeq(executed[i + 1].at, 1, Len(executed[i].at)) = executed[i].at
         \/ /\ executed[i + 1].top = executed[i].top + 1
            /\ executed[i + 1].at = <<>>
    /\ \A c \in 1..Len(calls) :
         /\ \E e \in 1..Len(executed) :
              /\ executed[e].top = calls[c].top /\ executed[e].at = calls[c].at
              /\ executed[e].type = (IF calls[c].fn = "reader" THEN "read" ELSE "log")
         /\ \A d \in 1..(c - 1) : calls[d].top < calls[c].top
    /\ pc = "loop" => (Len(executed) = 0 <=> idx = 1) /\ (idx > 1 => Last(executed).top = idx - 1)
    /\ pc = "done" => /\ idx = Len(actions) + 1
                      /\ { executed[i].top : i \in 1..Len(executed) } = 1..Len(actions)

\* a run of three actions completed, each of them having invoked the reader
\* or the logger, the second from a branch of a Match
C9_Witness ==
  /\ pc = "done"
  /\ Len(actions) = 3
  /\ Len(calls) = 3
  /\ calls[2].at # <<>>
  /\ calls[3].fn = "logger"

-----------------------------------------------------------------------------
(* C10: every run starts with an empty context, whatever earlier runs on   *)
(* the same Exec did: a current user seen during a run was returned by the *)
(* reader in that run, and a run whose first action is a Match or a Log    *)
(* raises the missing-user error, also after a run that executed a Read.   *)
C10_FreshContextPerRun ==
  pc \in {"loop", "exec", "done", "error"} =>
    /\ (pc = "loop" /\ idx = 1) => ~Populated
    /\ Populated =>
         \E c \in 1..Len(calls) :
           calls[c].fn = "reader" /\ ~calls[c].threw /\ calls[c].ret = <<env.user>>
    /\ (executed # <<>> /\ executed[1].type \in {"match", "log"}) =>
         /\ pc = "error" /\ error = "missingUser"
         /\ Len(executed) = 1 /\ calls = <<>>

\* after a run that executed a Read, a run failed on its first action, a Log
C10_Witness ==
  /\ readBefore
  /\ pc = "error" /\ error = "missingUser"
  /\ idx = 1
  /\ cur[1].type = "log"

-----------------------------------------------------------------------------
(* C12: for the list [Read{id:15}, Match{name:"marcus"} onSuccess Log age, *)
(* onFail Noop] the reader is called exactly once; when it returns a user  *)
(* named "marcus" the logger is called exactly once, with that user's age  *)
(* (42 for the example reader), and when it returns a user of another name *)
(* the logger is never called; the run completes without error in both     *)
(* cases (the logger returning normally).                                  *)

ExampleList == << ReadAction("15"), ExampleMatch >>

C12_ExampleRun ==
  (actions = ExampleList /\ pc \in {"done", "error"}) =>
    LET readerCalls == { c \in 1..Len(calls) : calls[c].fn = "reader" }
        loggerCalls == { c \in 1..Len(calls) : calls[c].fn = "logger" }
    IN /\ Cardinality(readerCalls) = 1
       /\ calls[1].fn = "reader" /\ calls[1].arg = JsNumber("15")
       /\ ~calls[1].threw =>
            LET user == calls[1].ret[1]
            IN IF user.name = JsString("marcus")
                 THEN /\ loggerCalls = {2}
                      /\ calls[2].arg = user.age
                      /\ user = MkUser("15", "marcus", "42") => calls[2].arg = JsNumber("42")
                      /\ ~calls[2].threw => pc = "done"
                 ELSE /\ loggerCalls = {}
                      /\ pc = "done"

\* the example list has run to its end with the example reader: 42 was logged
C12_Witness ==
  /\ actions = ExampleList
  /\ pc = "done"
  /\ Len(calls) = 2
  /\ calls[1].ret = << MkUser("15", "marcus", "42") >>
  /\ calls[2].fn = "logger" /\ calls[2].arg = JsNumber("42")

-----------------------------------------------------------------------------
(* C13: within one run every node of the action forest is executed at most *)
(* once: a top-level action exactly once unless an earlier error aborted   *)
(* the run, a nested action only as the next node after its parent Match;  *)
(* and every run terminates, with the list exhausted or an error raised:   *)
(* while the run is under way a step is always possible and every step     *)
(* lowers a natural-number measure of what is left to execute.             *)

RECURSIVE Height(_)
Height(a) ==
  1 + (IF a.onSuccess = <<>> THEN 0 ELSE Height(a.onSuccess[1]))
    + (IF a.onFail = <<>> THEN 0 ELSE Height(a.onFail[1]))

RECURSIVE Weight(_, _)
\* the steps the actions from position j on may still take
Weight(list, j) ==
  IF j > Len(list) THEN 0 ELSE Height(list[j]) + 1 + Weight(list, j + 1)

Variant ==
  IF pc = "loop" THEN 1 + Weight(actions, idx)
  ELSE IF pc = "exec" THEN 1 + Weight(actions, idx + 1) + Height(cur[1])
  ELSE 0

StepLowersVariant ==
  pc \in {"loop", "exec"} =>
    /\ Variant' < Variant
    /\ Variant' >= 0
    /\ pc' \in {"loop", "exec", "done", "error"}

C13_EachNodeOnceAndTermination ==
  /\ [](pc \in {"loop", "exec", "done", "error"} =>
          /\ \A i, j \in 1..Len(executed) :
               (executed[i].top = executed[j].top /\ executed[i].at = executed[j].at) => i = j
          /\ \A i \in 1..Len(executed) :
               executed[i].at # <<>> =>
                 /\ i > 1
                 /\ executed[i - 1].type = "match"
                 /\ executed[i - 1].top = executed[i].top
                 /\ executed[i - 1].at = SubSeq(executed[i].at, 1, Len(executed[i].at) - 1)
          /\ pc = "done" =>
               \A k \in 1..Len(actions) :
                 Cardinality({ i \in 1..Len(executed) :
                                 executed[i].top = k /\ executed[i].at = <<>> }) = 1
          /\ pc = "error" =>
               \A k \in 1..Len(actions) :
                 Cardinality({ i \in 1..Len(executed) :
                                 executed[i].top = k /\ executed[i].at = <<>> })
                   = (IF k <= idx THEN 1 ELSE 0)
          /\ pc = "done" => idx = Len(actions) + 1
          /\ pc \in {"loop", "exec"} =>
               ENABLED (ExecuteActions \/ ExecuteRead \/ ExecuteMatch \/ ExecuteLog
                          \/ ExecuteNoop \/ ExecuteUnknown))
  /\ [][StepLowersVariant]_vars

\* a run of three actions ended with its list exhausted, two nodes deep in
\* the tree of one of them
C13_Witness ==
  /\ pc = "done"
  /\ Len(actions) = 3
  /\ \E i \in 1..Len(executed) : Len(executed[i].at) = 2

-----------------------------------------------------------------------------
(* C14: within one run Populated is absorbing: once a Read has executed    *)
(* with the reader returning a user, no step of that run leaves the        *)
(* context empty, and no Match or Log executed later in the run, top-level *)
(* or nested, raises the missing-user error.                               *)
StaysPopulated ==
  (Populated /\ pc \in {"loop", "exec", "done", "error"}) =>
    /\ Populated'
    /\ error' # "missingUser"

C14_PopulatedIsAbsorbing ==
  [][StaysPopulated]_vars

\* after a Read, a Match and a nested Log and then a top-level Log have run
C14_Witness ==
  /\ pc = "done"
  /\ Len(executed) = 4
  /\ executed[1].type = "read"
  /\ executed[2].type = "match" /\ executed[3].type = "log" /\ executed[3].at # <<>>
  /\ executed[4].type = "log"
  /\ Populated

-----------------------------------------------------------------------------
(* C15: in the step-chain variant a MatchStep executed with a populated    *)
(* context executes exactly one of successStep / failStep, successStep iff *)
(* the user's name equals the criteria name, and never the step attached   *)
(* to it with setNext; a ReadStep stores the reader's result and then      *)
(* executes its next step if one is set; an EffectStep is terminal: it     *)
(* invokes the logger at most once and executes no next step.              *)

StepExecuting(kind) == stepPc = "exec" /\ step # <<>> /\ step[1].kind = kind /\ stepPc' # "idle"

MatchStepBranches ==
  (StepExecuting("match") /\ ~UserMissing(ctx)) =>
    /\ stepPc' = "exec"
    /\ stepCalls' = stepCalls /\ ctx' = ctx
    /\ IF ctx.user.name = JsString(step[1].name)
         THEN step' = step[1].successStep /\ via' = "success"
         ELSE step' = step[1].failStep /\ via' = "fail"

ReadStepStoresThenNext ==
  StepExecuting("read") =>
    /\ Len(stepCalls') = Len(stepCalls) + 1
    /\ Last(stepCalls').fn = "reader" /\ Last(stepCalls').arg = JsNumber(step[1].id)
    /\ ~Last(stepCalls').threw =>
         /\ ctx' = [user |-> Last(stepCalls').ret[1]]
         /\ IF step[1].nextStep # <<>>
              THEN stepPc' = "exec" /\ step' = step[1].nextStep /\ via' = "next"
              ELSE stepPc' = "done" /\ step' = <<>>

EffectStepIsTerminal ==
  StepExecuting("effect") =>
    /\ stepPc' \in {"done", "error"} /\ step' = <<>>
    /\ ctx' = ctx
    /\ \/ stepCalls' = stepCalls
       \/ /\ Len(stepCalls') = Len(stepCalls) + 1
          /\ Last(stepCalls').fn = "logger"
    /\ stepPc' = "error" => (stepCalls' # stepCalls /\ Last(stepCalls').threw)

C15_StepChainSteps ==
  /\ [][MatchStepBranches /\ ReadStepStoresThenNext /\ EffectStepIsTerminal]_vars
  /\ [](\A i \in 1..Len(stepTrace) :
          /\ stepTrace[i].kind = "effect" => (i = Len(stepTrace) /\ stepPc # "exec")
          /\ (stepTrace[i].via = "next" /\ i > 1) => stepTrace[i - 1].kind = "read"
          /\ stepTrace[i].via \in {"success", "fail"} =>
               (i > 1 /\ stepTrace[i - 1].kind = "match"))

\* a run went through a ReadStep, then a MatchStep with a step attached by
\* setNext, and ended in the successStep
C15_Witness ==
  /\ stepPc = "done"
  /\ Len(stepTrace) = 3
  /\ stepTrace[1].kind = "read"
  /\ stepTrace[2].kind = "match" /\ stepTrace[2].step.nextStep # <<>>
  /\ stepTrace[3].kind = "effect" /\ stepTrace[3].via = "success"
  /\ Len(stepCalls) = 2

-----------------------------------------------------------------------------
(* C11: for every program that can be written in both forms, the           *)
(* step-chain variant and the tagged-action variant produce, for the same  *)
(* reader and logger, the same sequence of reader and logger invocations   *)
(* and the same outcome (normal completion or missing-user error),         *)
(* including programs whose first instruction is a log effect with no      *)
(* preceding read.                                                         *)

BothFinished ==
  /\ stepPc \in {"done", "error"}
  /\ pc \in {"done", "error"}

\* reader and logger behave alike in both runs: called alike at the same
\* point, they return or throw alike
SameCallbacks ==
  \A k \in 1..Len(stepCalls) :
    (k <= Len(calls) /\ stepCalls[k].fn = calls[k].fn /\ stepCalls[k].arg = calls[k].arg) =>
      (stepCalls[k].threw = calls[k].threw /\ stepCalls[k].ret = calls[k].ret)

SameInvocations ==
  /\ Len(stepCalls) = Len(calls)
  /\ \A k \in 1..Len(calls) :
       stepCalls[k] = StepCall(calls[k].fn, calls[k].arg, calls[k].threw, calls[k].ret)

SameOutcome ==
  (IF stepPc = "done" THEN "done" ELSE stepError) = (IF pc = "done" THEN "done" ELSE error)

C11_VariantsEquivalent ==
  (BothFinished /\ SameCallbacks) => (SameInvocations /\ SameOutcome)

\* C11, short of the programs that start with a log effect: all other
\* programs of both forms run alike
C11_VariantsEquivalentButLogFirst ==
  (BothFinished /\ SameCallbacks
     /\ ~(steps[1].kind = "effect" /\ steps[1].effect # <<>>)) =>
    (SameInvocations /\ SameOutcome)

\* both forms of a read-match-log program have run alike to their end
C11_Witness ==
  /\ BothFinished
  /\ Len(stepCalls) = 2
  /\ SameInvocations
  /\ SameOutcome
  /\ Len(stepTrace) = 3

-----------------------------------------------------------------------------
(* C16: for any chain of SupportHandlers linked with setNext, handle       *)
(* called on the head returns the processRequest result of the first       *)
(* handler in chain order whose canHandle is true; exactly one handler     *)
(* processes the request and no handler after it is consulted; when no     *)
(* handler of the chain can handle the request the result is the 'No       *)
(* handler available' message and no handler processes it.                 *)

RECURSIVE Linked(_, _, _)
\* the objects reached from head over the links, head first, up to the
\* first one met before
Linked(next, head, seen) ==
  IF head \in seen THEN <<>>
  ELSE << head >> \o (IF next[head] = <<>> THEN <<>>
                      ELSE Linked(next, next[head][1], seen \cup {head}))

\* the links from head end in null: head starts a chain, not a ring
EndsInNull(next, head) ==
  LET chain == Linked(next, head, {}) IN next[chain[Len(chain)]] = <<>>

C16_FirstCapableHandles ==
  supPc \in {"done", "overflow"} =>
    LET chain == Linked(nextHandler, supHead[1], {})
        capable == { i \in 1..Len(chain) : CanHandle(chain[i], request[1]) }
    IN IF capable # {}
         THEN LET first == CHOOSE i \in capable : \A j \in capable : i <= j
              IN /\ supPc = "done"
                 /\ supResult = << ProcessRequest(chain[first], request[1]) >>
                 /\ processed = << chain[first] >>
                 /\ consulted = SubSeq(chain, 1, first)
         ELSE EndsInNull(nextHandler, supHead[1]) =>
                /\ supPc = "done"
                /\ supResult = << NoHandlerAvailable(request[1]) >>
                /\ processed = <<>>
                /\ consulted = chain

\* the chain of the example, junior to manager: a high technical request
\* went past two handlers to the technical lead
C16_Witness ==
  /\ supPc = "done"
  /\ supHead = << "junior" >>
  /\ nextHandler["junior"] = << "senior" >>
  /\ nextHandler["senior"] = << "techLead" >>
  /\ nextHandler["techLead"] = << "manager" >>
  /\ nextHandler["manager"] = <<>>
  /\ consulted = << "junior", "senior", "techLead" >>
  /\ processed = << "techLead" >>

\* no handler of a chain of four can handle the request
C16_WitnessNoHandler ==
  /\ supPc = "done"
  /\ Len(consulted) = 4
  /\ processed = <<>>
  /\ supResult = << NoHandlerAvailable(request[1]) >>

-----------------------------------------------------------------------------
(* C17: for any chain of Loggers linked with setNext, log(level, message)  *)
(* called on the head passes the message to every logger of the chain, in  *)
(* chain order, whether or not an earlier logger wrote it; a logger writes *)
(* the message, exactly once, if and only if level >= its own level.       *)

RECURSIVE WritersOf(_, _)
\* the loggers of the chain that are to write, in chain order
WritersOf(chain, level) ==
  IF chain = <<>> THEN <<>>
  ELSE (IF level >= loggerLevel[chain[1]][1]
          THEN << [by |-> chain[1], message |-> "m"] >> ELSE <<>>)
       \o WritersOf(Tail(chain), level)

C17_EveryLoggerSeesMessage ==
  (logPc \in {"done", "overflow"} /\ EndsInNull(nextLogger, logHead[1])) =>
    LET chain == Linked(nextLogger, logHead[1], {})
    IN /\ logPc = "done"
       /\ passed = chain
       /\ written = WritersOf(chain, logArgs[1].level)

\* a WARNING went down a chain of three: the first two wrote it, the third,
\* an ERROR logger behind them, did not
C17_Witness ==
  /\ logPc = "done"
  /\ logArgs[1].level = WARNING
  /\ Len(passed) = 3
  /\ Len(written) = 2
  /\ written[1].by = passed[1] /\ written[2].by = passed[2]
  /\ loggerLevel[passed[3]] = << ERROR >>

-----------------------------------------------------------------------------
(* C19: Either.map and Either.chain act only on a Right: on a Left they    *)
(* never invoke the supplied function and return a Left carrying the same  *)
(* value, so once a step of a map/chain pipeline yields a Left every later *)
(* step is skipped, fold applies leftFn to that first Left's value and     *)
(* getOrElse returns the default; on a Right, map returns Right(fn(value)) *)
(* and chain returns fn(value).                                            *)

\* a map or chain call is the step taken
PipeStep(op) == eitherPc = "pipe" /\ pipeline # <<>> /\ Head(pipeline).op = op

OnLeftNothingRuns ==
  ((PipeStep("map") \/ PipeStep("chain")) /\ ~either[1].isRightValue) =>
    /\ fnCalls' = fnCalls
    /\ ~either'[1].isRightValue
    /\ either'[1].value = either[1].value

OnRightFnRuns ==
  /\ (PipeStep("map") /\ either[1].isRightValue) =>
       /\ either'[1].isRightValue
       /\ either'[1].value = ApplyFn(Head(pipeline).fn, either[1].value)
       /\ fnCalls' = Append(fnCalls, [fn |-> Head(pipeline).fn, arg |-> either[1].value])
  /\ (PipeStep("chain") /\ either[1].isRightValue) =>
       /\ either' = << ApplyChainFn(Head(pipeline).fn, either[1].value) >>
       /\ fnCalls' = Append(fnCalls, [fn |-> Head(pipeline).fn, arg |-> either[1].value])

\* the positions of the trail that hold a Left
Lefts == { i \in 1..Len(trail) : ~trail[i].isRightValue }

FirstLeftWins ==
  Lefts # {} =>
    LET first == CHOOSE i \in Lefts : \A j \in Lefts : i <= j
    IN /\ \A j \in first..Len(trail) : trail[j] = trail[first]
       /\ Len(fnCalls) <= first - 1
       /\ either[1] = trail[first]
       /\ folded # <<>> => folded = << [fn |-> "leftFn", arg |-> trail[first].value] >>
       /\ gotten # <<>> => gotten = << Num(0) >>

C19_EitherActsOnRightOnly ==
  /\ [][OnLeftNothingRuns /\ OnRightFnRuns]_vars
  /\ [](eitherPc = "pipe" => FirstLeftWins)
  /\ []((eitherPc = "pipe" /\ Lefts = {}) =>
          /\ Len(fnCalls) = Len(trail) - 1
          /\ folded # <<>> => folded = << [fn |-> "rightFn", arg |-> either[1].value] >>
          /\ gotten # <<>> => gotten = << either[1].value >>)

\* processInput('-5'): the chain yielded the first Left, the map after it
\* was skipped, and fold and getOrElse took the Left's side
C19_Witness ==
  /\ eitherPc = "pipe"
  /\ Len(trail) = 3
  /\ trail[1] = Right(Num(0 - 5))
  /\ trail[2] = Left(Str("Number must be positive"))
  /\ trail[3] = trail[2]
  /\ fnCalls = << [fn |-> "validatePositive", arg |-> Num(0 - 5)] >>
  /\ folded = << [fn |-> "leftFn", arg |-> Str("Number must be positive")] >>
  /\ gotten = << Num(0) >>

-----------------------------------------------------------------------------
(* C18: for a Future built with map and chain over a computation that      *)
(* calls exactly one of its callbacks exactly once (the Futures returned   *)
(* to chain likewise, and no function throwing), fork calls exactly one of *)
(* onError / onSuccess, exactly once; if a stage rejects, no later map or  *)
(* chain function is invoked and onError receives that stage's error       *)
(* unchanged; if all stages resolve, the functions are applied in the      *)
(* order they were attached and onSuccess receives the final value. No     *)
(* computation runs before fork is called.                                 *)

\* the functions invoked so far, in order
FnsInvoked == SelectSeq(invoked, LAMBDA r : r.what = "fn")

\* the entries of the history that hand a value on: a computation that
\* resolved, a map function that returned
HandsOn(r) == r.out.kind \in {"resolve", "return"}

\* every function was invoked with the value handed on last before it
ValuesThreaded ==
  \A j \in 1..Len(invoked) :
    invoked[j].what = "fn" =>
      /\ j > 1
      /\ HandsOn(invoked[j - 1])
      /\ invoked[j].arg = invoked[j - 1].out.value
      /\ invoked[j].out.kind = "return" =>
           invoked[j].out.value = ApplyFn(invoked[j].name, invoked[j].arg)

C18_ForkSettlesOnce ==
  /\ futPc \in {"idle", "built"} => (invoked = <<>> /\ settled = <<>>)
  /\ futPc = "run" => settled = <<>>
  /\ futPc = "settled" =>
       /\ Len(settled) = 1
       /\ ValuesThreaded
       /\ \A i \in 1..Len(FnsInvoked) :
            /\ i <= Len(future[1].stages)
            /\ FnsInvoked[i].name = future[1].stages[i].fn
       /\ LET rejections == { j \in 1..Len(invoked) : invoked[j].out.kind = "reject" }
          IN IF rejections # {}
               THEN /\ rejections = { Len(invoked) }
                    /\ settled[1] = [cb |-> "onError", arg |-> Last(invoked).out.value]
               ELSE /\ Len(FnsInvoked) = Len(future[1].stages)
                    /\ HandsOn(Last(invoked))
                    /\ settled[1] = [cb |-> "onSuccess", arg |-> Last(invoked).out.value]

\* read, map, chain, map: the chained Future rejected, the last map never
\* ran, onError got the error
C18_Witness ==
  /\ futPc = "settled"
  /\ Len(future[1].stages) = 3
  /\ future[1].stages[3].op = "map"
  /\ Len(FnsInvoked) = 2
  /\ FnsInvoked[1].name = "negate" /\ FnsInvoked[2].name = "positive"
  /\ settled = << [cb |-> "onError", arg |-> Str("not positive")] >>

\* read, map, chain, map: all resolved, onSuccess got the last value
C18_WitnessSuccess ==
  /\ futPc = "settled"
  /\ Len(future[1].stages) = 3
  /\ Len(FnsInvoked) = 3
  /\ FnsInvoked[2].name = "positive"
  /\ settled = << [cb |-> "onSuccess", arg |-> Num(4)] >>

====
